---- MODULE Spec2Model ----
(***************************************************************************)
(* Entitlement & completion pipeline of the course server: the order       *)
(* ledger and the enrollment grant, the digital-order download tokens, the *)
(* lesson-progress tracker and the certificate issuer.  Every request      *)
(* handler is a process that takes one step per awaited database call, so  *)
(* that handlers interleave exactly where the Node.js event loop lets      *)
(* them.  A handler that has responded stays in "done", holding its        *)
(* request and response, until the process serves its next request.        *)
(***************************************************************************)
EXTENDS Integers, Sequences, FiniteSets, TLC

\* ------------------------------------------------------------------ bounds
NumProcs == 2
MaxRequests == 3
MaxNow == 1
MaxLessons == 2
ToggleLessons == 4
MaxToggles == 5

Procs == 1..NumProcs

\* ----------------------------------------------------------------- catalog
Buyers == {"u1"}
Courses == {"c1"}

\* the course ids a request may name: the published courses, and "c0", which
\* names a course that is missing or not published
CourseIds == Courses \cup {"c0"}
TxnIds == {"t1", "t2"}
NoTxn == ""
NoStatus == ""

\* transactionId of a free order: `free_${userId}_${courseId}`
FreeTxn(u, c) == "free_" \o u \o "_" \o c

VARIABLES
  price,        \* Course.price of each published course (0: a free course)
  orders,       \* Order collection: sequence of documents, _id = index
  enrollments,  \* Enrollment collection: sequence of documents, _id = index
  dorders,      \* DigitalOrder collection: sequence of documents, _id = index
  cart,         \* Cart of each buyer: its items and subtotal
  now,          \* Date.now(), in days
  tokenSeq,     \* number of download tokens generateToken() has drawn
  lessons,      \* Lesson collection: the _ids of the lessons of the course
  lessonSeq,    \* number of lessons created so far (the next _id)
  progress,     \* Progress document of each (student, course) pair
  certificates, \* Certificate collection: sequence of documents
  issuers,      \* generateAndUploadCertificate invocations, detached tasks
  budget,       \* number of requests the run receives
  started,      \* number of requests received so far
  pc,           \* per handler: the awaited call it is about to make
  loc           \* per handler: its request, local variables and response

vars == <<price, orders, enrollments, dorders, cart, now, tokenSeq,
          lessons, lessonSeq, progress, certificates, issuers, budget,
          started, pc, loc>>

\* what the handlers of the course-order ledger never touch
digitalVars == <<dorders, cart, now, tokenSeq>>
trackerVars == <<lessons, lessonSeq, progress, certificates, issuers>>
notLedger == <<digitalVars, trackerVars, budget>>

\* what the handlers of the digital shop never touch
notShop == <<price, orders, enrollments, trackerVars, budget>>

\* what the progress tracker and the certificate issuer never touch
notTracker == <<price, orders, digitalVars, budget>>

\* no Progress document exists for the pair
NoProgress == [exists |-> FALSE, completedLessons |-> {}, lastWatchedLesson |-> 0]

\* cart.items = []; cart.subtotal = 0
EmptyCart == [items |-> <<>>, subtotal |-> 0]

\* the digital products on sale and their prices (pA is free)
Products == {"pA", "pB"}
ProductPrice == [pr \in Products |-> IF pr = "pA" THEN 0 ELSE 300]

\* items.reduce((sum, it) => sum + it.price * it.quantity, 0)
RECURSIVE computeSubtotal(_)
computeSubtotal(items) ==
  IF items = <<>> THEN 0
  ELSE Head(items).price * Head(items).quantity + computeSubtotal(Tail(items))

\* the cart addToCart leaves after adding the products of `prods`, one of each
CartOf(prods) ==
  LET items == [i \in 1..Len(prods) |->
                  [product |-> prods[i], price |-> ProductPrice[prods[i]],
                   quantity |-> 1]]
  IN [items |-> items, subtotal |-> computeSubtotal(items)]

\* the carts a buyer may come to the checkout with
CartChoices == {CartOf(<<"pA">>), CartOf(<<"pB">>), CartOf(<<"pA", "pB">>)}

\* no Enrollment document is held
NoCopy == [id |-> 0, student |-> "", progress |-> 0, completed |-> FALSE]

\* ------------------------------------------------------- handler bookkeeping
NoLoc ==
  [op |-> "", oid |-> 0, u |-> "", c |-> "", req |-> NoStatus,
   st |-> NoStatus, txn |-> NoTxn, mail |-> "", code |-> 0,
   prev |-> NoStatus, amount |-> 0, items |-> <<>>, tokens |-> <<>>,
   dirty |-> FALSE, lesson |-> 0, flag |-> FALSE, n |-> 0,
   total |-> 0, read |-> NoCopy, enr |-> NoCopy, enrs |-> <<>>, i |-> 0,
   links |-> <<>>]

\* a request arrives and is served by the first handler that is free
Free(p) == pc[p] \in {"idle", "done"}

Accept(p) ==
  /\ Free(p)
  /\ \A q \in Procs : q < p => ~Free(q)
  /\ started < budget
  /\ started' = started + 1

\* the handler of p responds with `code` and ends
Respond(p, l, code) ==
  /\ pc' = [pc EXCEPT ![p] = "done"]
  /\ loc' = [loc EXCEPT ![p] =
       [NoLoc EXCEPT !.op = l.op, !.oid = l.oid, !.req = l.req,
                     !.mail = l.mail, !.code = code]]

\* the handler of p goes on to its next awaited call
Goto(p, label, l) ==
  /\ pc' = [pc EXCEPT ![p] = label]
  /\ loc' = [loc EXCEPT ![p] = l]

\* --------------------------------------------------------------- collections
\* Enrollment.findOne({student, course})
IsEnrolled(s, c) ==
  \E i \in DOMAIN enrollments :
    enrollments[i].student = s /\ enrollments[i].course = c

\* a plausible slip: the unique index on (student, course) is not declared
EnrollmentIndexOff(s, c) == TRUE

\* enrollmentSchema.index({student: 1, course: 1}, {unique: true}): an insert
\* is accepted only when no document holds the pair
EnrollmentIndexAccepts(s, c) == ~IsEnrolled(s, c)

\* the document Enrollment.create({student, course}) inserts (schema defaults)
NewEnrollment(s, c) ==
  [student |-> s, course |-> c, progress |-> 0, completed |-> FALSE]

\* orderSchema transactionId {unique: true}: no other order holds `txn`
TxnIndexAccepts(txn, self) ==
  \A i \in DOMAIN orders : i # self => orders[i].transactionId # txn

\* Order.findOne({user, course, paymentStatus: {$in: ['pending', 'paid']}})
HasActiveOrder(u, c) ==
  \E i \in DOMAIN orders :
    /\ orders[i].user = u
    /\ orders[i].course = c
    /\ orders[i].paymentStatus \in {"pending", "paid"}

\* the ids a request may name: those of the orders, and one that names none
OrderIds == 1..(Len(orders) + 1)

\* sendCoursePurchaseConfirmation inside try/catch: the email is delivered, or
\* the failure is logged and swallowed
EmailOutcomes == {"sent", "failed"}

\* ------------------------------------------------------------- createOrder
CreateOrder_Begin(p, u, c, paid, txn) ==
  /\ Accept(p)
  /\ UNCHANGED <<price, orders, enrollments>>
  /\ UNCHANGED notLedger
  /\ LET l == [NoLoc EXCEPT !.op = "createOrder", !.u = u, !.c = c] IN
     IF c \notin Courses
       THEN Respond(p, l, 404)
     ELSE IF IsEnrolled(u, c)
       THEN Respond(p, l, 409)
     ELSE IF price[c] = 0
       THEN Goto(p, "co_freeOrder", l)
     ELSE IF ~paid \/ txn = NoTxn
       THEN Respond(p, l, 400)
     ELSE Goto(p, "co_findOrder", [l EXCEPT !.txn = txn])

CreateOrder_FreeOrder(p) ==
  /\ pc[p] = "co_freeOrder"
  /\ UNCHANGED <<price, enrollments, started>>
  /\ UNCHANGED notLedger
  /\ LET txn == FreeTxn(loc[p].u, loc[p].c) IN
     IF TxnIndexAccepts(txn, 0)
       THEN /\ orders' = Append(orders,
                 [user |-> loc[p].u, course |-> loc[p].c,
                  paymentStatus |-> "paid", transactionId |-> txn])
            /\ Goto(p, "co_enroll", [loc[p] EXCEPT !.oid = Len(orders) + 1])
       ELSE /\ UNCHANGED orders
            /\ Respond(p, loc[p], 500)

\* a plausible slip: the free path answers without granting access
CreateOrder_EnrollSkipped(p) ==
  /\ pc[p] = "co_enroll"
  /\ UNCHANGED <<price, orders, enrollments, started>>
  /\ UNCHANGED notLedger
  /\ Goto(p, "co_email", loc[p])

CreateOrder_Enroll(p) ==
  /\ pc[p] = "co_enroll"
  /\ UNCHANGED <<price, orders, started>>
  /\ UNCHANGED notLedger
  /\ IF EnrollmentIndexAccepts(loc[p].u, loc[p].c)
       THEN /\ enrollments' = Append(enrollments, NewEnrollment(loc[p].u, loc[p].c))
            /\ Goto(p, "co_email", loc[p])
       ELSE /\ UNCHANGED enrollments
            /\ Respond(p, loc[p], 500)

CreateOrder_Email(p) ==
  /\ pc[p] = "co_email"
  /\ UNCHANGED <<price, orders, enrollments, started>>
  /\ UNCHANGED notLedger
  /\ \E m \in EmailOutcomes : Respond(p, [loc[p] EXCEPT !.mail = m], 201)

\* a plausible slip: the buyer's pending or paid order is not looked up
CreateOrder_FindOrderSkipped(p) ==
  /\ pc[p] = "co_findOrder"
  /\ UNCHANGED <<price, orders, enrollments, started>>
  /\ UNCHANGED notLedger
  /\ Goto(p, "co_order", loc[p])

CreateOrder_FindOrder(p) ==
  /\ pc[p] = "co_findOrder"
  /\ UNCHANGED <<price, orders, enrollments, started>>
  /\ UNCHANGED notLedger
  /\ IF HasActiveOrder(loc[p].u, loc[p].c)
       THEN Respond(p, loc[p], 409)
       ELSE Goto(p, "co_order", loc[p])

CreateOrder_Order(p) ==
  /\ pc[p] = "co_order"
  /\ UNCHANGED <<price, enrollments, started>>
  /\ UNCHANGED notLedger
  /\ IF TxnIndexAccepts(loc[p].txn, 0)
       THEN /\ orders' = Append(orders,
                 [user |-> loc[p].u, course |-> loc[p].c,
                  paymentStatus |-> "pending", transactionId |-> loc[p].txn])
            /\ Respond(p, [loc[p] EXCEPT !.oid = Len(orders) + 1], 201)
       ELSE /\ UNCHANGED orders
            /\ Respond(p, loc[p], 500)

\* ------------------------------------------------- grant on a paid transition
\* order.save(): $set of the paths the handler modified on its copy
SaveOrder(o, st, txn) ==
  [orders EXCEPT ![o] =
     [@ EXCEPT !.paymentStatus = IF st = NoStatus THEN @ ELSE st,
               !.transactionId = IF txn = NoTxn THEN @ ELSE txn]]

\* the unique index on transactionId rejects a value another order holds
SaveAccepted(o, txn) == txn = NoTxn \/ TxnIndexAccepts(txn, o)

\* the paths `order.x = value` marks modified: those whose value changes
Modified(old, new, none) == IF new = none \/ new = old THEN none ELSE new

\* the handler's copy of order o, with the request's fields assigned to it
OrderCopy(op, o, st, txn) ==
  [NoLoc EXCEPT !.op = op, !.oid = o, !.req = st,
                !.u = orders[o].user, !.c = orders[o].course,
                !.st = Modified(orders[o].paymentStatus, st, NoStatus),
                !.txn = Modified(orders[o].transactionId, txn, NoTxn)]

\* ---------------------------------------------------------- updateOrderStatus
UpdateOrderStatus_Begin(p, o, st, txn) ==
  /\ Accept(p)
  /\ UNCHANGED <<price, orders, enrollments>>
  /\ UNCHANGED notLedger
  /\ LET l == [NoLoc EXCEPT !.op = "updateOrderStatus", !.oid = o, !.req = st] IN
     IF o \notin DOMAIN orders
       THEN Respond(p, l, 404)
     ELSE IF orders[o].paymentStatus = "paid"
       THEN Respond(p, l, 400)
     ELSE Goto(p, IF st = "paid" THEN "uos_findEnr" ELSE "uos_save",
               OrderCopy("updateOrderStatus", o, st, txn))

UpdateOrderStatus_FindEnrollment(p) ==
  /\ pc[p] = "uos_findEnr"
  /\ UNCHANGED <<price, orders, enrollments, started>>
  /\ UNCHANGED notLedger
  /\ Goto(p, IF IsEnrolled(loc[p].u, loc[p].c) THEN "uos_email" ELSE "uos_enroll",
          loc[p])

UpdateOrderStatus_Enroll(p) ==
  /\ pc[p] = "uos_enroll"
  /\ UNCHANGED <<price, orders, started>>
  /\ UNCHANGED notLedger
  /\ IF EnrollmentIndexAccepts(loc[p].u, loc[p].c)
       THEN /\ enrollments' = Append(enrollments, NewEnrollment(loc[p].u, loc[p].c))
            /\ Goto(p, "uos_email", loc[p])
       ELSE /\ UNCHANGED enrollments
            /\ Respond(p, loc[p], 500)

\* a plausible slip: the email call outside the try block, its error thrown on
UpdateOrderStatus_EmailThrows(p) ==
  /\ pc[p] = "uos_email"
  /\ UNCHANGED <<price, orders, enrollments, started>>
  /\ UNCHANGED notLedger
  /\ \/ Goto(p, "uos_save", [loc[p] EXCEPT !.mail = "sent"])
     \/ Respond(p, [loc[p] EXCEPT !.mail = "failed"], 500)

UpdateOrderStatus_Email(p) ==
  /\ pc[p] = "uos_email"
  /\ UNCHANGED <<price, orders, enrollments, started>>
  /\ UNCHANGED notLedger
  /\ \E m \in EmailOutcomes : Goto(p, "uos_save", [loc[p] EXCEPT !.mail = m])

UpdateOrderStatus_Save(p) ==
  /\ pc[p] = "uos_save"
  /\ UNCHANGED <<price, enrollments, started>>
  /\ UNCHANGED notLedger
  /\ IF SaveAccepted(loc[p].oid, loc[p].txn)
       THEN /\ orders' = SaveOrder(loc[p].oid, loc[p].st, loc[p].txn)
            /\ Respond(p, loc[p], 200)
       ELSE /\ UNCHANGED orders
            /\ Respond(p, loc[p], 500)

\* ------------------------------------------- updateOrder / updateOrderAdmin
UpdateOrder_Begin(p, o, st, txn) ==
  /\ Accept(p)
  /\ UNCHANGED <<price, orders, enrollments>>
  /\ UNCHANGED notLedger
  /\ IF o \notin DOMAIN orders
       THEN Respond(p, [NoLoc EXCEPT !.op = "updateOrder", !.oid = o, !.req = st], 404)
     ELSE Goto(p, IF st = "paid" /\ orders[o].paymentStatus # "paid"
                    THEN "uo_findEnr" ELSE "uo_save",
               OrderCopy("updateOrder", o, st, txn))

UpdateOrder_FindEnrollment(p) ==
  /\ pc[p] = "uo_findEnr"
  /\ UNCHANGED <<price, orders, enrollments, started>>
  /\ UNCHANGED notLedger
  /\ Goto(p, IF IsEnrolled(loc[p].u, loc[p].c) THEN "uo_email" ELSE "uo_enroll",
          loc[p])

UpdateOrder_Enroll(p) ==
  /\ pc[p] = "uo_enroll"
  /\ UNCHANGED <<price, orders, started>>
  /\ UNCHANGED notLedger
  /\ IF EnrollmentIndexAccepts(loc[p].u, loc[p].c)
       THEN /\ enrollments' = Append(enrollments, NewEnrollment(loc[p].u, loc[p].c))
            /\ Goto(p, "uo_email", loc[p])
       ELSE /\ UNCHANGED enrollments
            /\ Respond(p, loc[p], 500)

UpdateOrder_Email(p) ==
  /\ pc[p] = "uo_email"
  /\ UNCHANGED <<price, orders, enrollments, started>>
  /\ UNCHANGED notLedger
  /\ \E m \in EmailOutcomes : Goto(p, "uo_save", [loc[p] EXCEPT !.mail = m])

UpdateOrder_Save(p) ==
  /\ pc[p] = "uo_save"
  /\ UNCHANGED <<price, enrollments, started>>
  /\ UNCHANGED notLedger
  /\ IF SaveAccepted(loc[p].oid, loc[p].txn)
       THEN /\ orders' = SaveOrder(loc[p].oid, loc[p].st, loc[p].txn)
            /\ Respond(p, loc[p], 200)
       ELSE /\ UNCHANGED orders
            /\ Respond(p, loc[p], 500)

\* ---------------------------------------------------------- createEnrollment
CreateEnrollment_Begin(p, s, c) ==
  /\ Accept(p)
  /\ UNCHANGED <<price, orders, enrollments>>
  /\ UNCHANGED notLedger
  /\ LET l == [NoLoc EXCEPT !.op = "createEnrollment", !.u = s, !.c = c] IN
     IF IsEnrolled(s, c)
       THEN Respond(p, l, 409)
       ELSE Goto(p, "ce_enroll", l)

CreateEnrollment_Enroll(p) ==
  /\ pc[p] = "ce_enroll"
  /\ UNCHANGED <<price, orders, started>>
  /\ UNCHANGED notLedger
  /\ IF EnrollmentIndexAccepts(loc[p].u, loc[p].c)
       THEN /\ enrollments' = Append(enrollments, NewEnrollment(loc[p].u, loc[p].c))
            /\ Respond(p, loc[p], 201)
       ELSE /\ UNCHANGED enrollments
            /\ Respond(p, loc[p], 500)

\* ============================================================ digital orders
\* expiresAt: new Date(Date.now() + 1000 * 60 * 60 * 24 * 7), in days
TokenTTL == 7

\* downloadTokenSchema: maxDownloads {default: 5}
DefaultMaxDownloads == 5

\* transactionId of a free digital order: `free_${userId}_${Date.now()}`
FreeDigitalTxn(u, t) == "free_" \o u \o "_" \o ToString(t)

\* items.map(it => ({product, token: generateToken(), expiresAt})): one fresh
\* token per item, the schema defaults filled in; `base` tokens were drawn
\* before, `t` is Date.now()
MakeTokens(items, base, t) ==
  [i \in 1..Len(items) |->
     [product |-> items[i].product, token |-> base + i,
      expiresAt |-> t + TokenTTL, maxDownloads |-> DefaultMaxDownloads,
      downloads |-> 0]]

\* digitalOrderSchema transactionId {unique: true}
DigitalTxnIndexAccepts(txn, self) ==
  \A i \in DOMAIN dorders : i # self => dorders[i].transactionId # txn

\* the ids a request may name: those of the orders, and one that names none
DigitalOrderIds == 1..(Len(dorders) + 1)

\* time passes
Tick ==
  /\ now < MaxNow
  /\ now' = now + 1
  /\ UNCHANGED <<notShop, dorders, cart, tokenSeq, started, pc, loc>>

\* ---------------------------------------------------------- checkoutFromCart
CheckoutFromCart_Begin(p, u, method, txn) ==
  /\ Accept(p)
  /\ UNCHANGED <<notShop, dorders, cart, now, tokenSeq>>
  /\ LET l == [NoLoc EXCEPT !.op = "checkoutFromCart", !.u = u]
         items == [i \in DOMAIN cart[u].items |->
                     [product |-> cart[u].items[i].product,
                      price |-> cart[u].items[i].price]]
     IN
     IF cart[u].items = <<>>
       THEN Respond(p, l, 400)
     ELSE IF cart[u].subtotal = 0
       THEN Goto(p, "ck_freeOrder",
                 [l EXCEPT !.items = items, !.txn = FreeDigitalTxn(u, now)])
     ELSE IF ~method \/ txn = NoTxn
       THEN Respond(p, l, 400)
     ELSE Goto(p, "ck_order",
               [l EXCEPT !.items = items, !.amount = cart[u].subtotal,
                         !.txn = txn])

CheckoutFromCart_FreeOrder(p) ==
  /\ pc[p] = "ck_freeOrder"
  /\ UNCHANGED <<notShop, cart, now, started>>
  /\ IF DigitalTxnIndexAccepts(loc[p].txn, 0)
       THEN /\ dorders' = Append(dorders,
                 [user |-> loc[p].u, items |-> loc[p].items, amount |-> 0,
                  paymentMethod |-> "free", paymentStatus |-> "paid",
                  transactionId |-> loc[p].txn, downloadTokens |-> <<>>])
            /\ tokenSeq' = tokenSeq + Len(loc[p].items)
            /\ Goto(p, "ck_saveTokens",
                    [loc[p] EXCEPT !.oid = Len(dorders) + 1,
                       !.tokens = MakeTokens(loc[p].items, tokenSeq, now)])
       ELSE /\ UNCHANGED <<dorders, tokenSeq>>
            /\ Respond(p, loc[p], 500)

CheckoutFromCart_SaveTokens(p) ==
  /\ pc[p] = "ck_saveTokens"
  /\ UNCHANGED <<notShop, cart, now, tokenSeq, started>>
  /\ dorders' = [dorders EXCEPT ![loc[p].oid].downloadTokens = loc[p].tokens]
  /\ Goto(p, "ck_email", loc[p])

CheckoutFromCart_Email(p) ==
  /\ pc[p] = "ck_email"
  /\ UNCHANGED <<notShop, dorders, cart, now, tokenSeq, started>>
  /\ \E m \in EmailOutcomes : Goto(p, "ck_clearCart", [loc[p] EXCEPT !.mail = m])

\* a plausible slip: the cart is left as it was
CheckoutFromCart_CartKept(p) ==
  /\ pc[p] = "ck_clearCart"
  /\ UNCHANGED <<notShop, dorders, cart, now, tokenSeq, started>>
  /\ Respond(p, loc[p], 201)

CheckoutFromCart_ClearCart(p) ==
  /\ pc[p] = "ck_clearCart"
  /\ UNCHANGED <<notShop, dorders, now, tokenSeq, started>>
  /\ cart' = [cart EXCEPT ![loc[p].u] = EmptyCart]
  /\ Respond(p, loc[p], 201)

CheckoutFromCart_Order(p) ==
  /\ pc[p] = "ck_order"
  /\ UNCHANGED <<notShop, cart, now, tokenSeq, started>>
  /\ IF DigitalTxnIndexAccepts(loc[p].txn, 0)
       THEN /\ dorders' = Append(dorders,
                 [user |-> loc[p].u, items |-> loc[p].items,
                  amount |-> loc[p].amount, paymentMethod |-> "bkash",
                  paymentStatus |-> "pending", transactionId |-> loc[p].txn,
                  downloadTokens |-> <<>>])
            /\ Respond(p, [loc[p] EXCEPT !.oid = Len(dorders) + 1], 201)
       ELSE /\ UNCHANGED dorders
            /\ Respond(p, loc[p], 500)

\* ------------------------------------------------------------- adminMarkPaid
AdminMarkPaid_Begin(p, o, st, txn) ==
  /\ Accept(p)
  /\ UNCHANGED <<notShop, dorders, cart, now>>
  /\ LET l == [NoLoc EXCEPT !.op = "adminMarkPaid", !.oid = o, !.req = st] IN
     IF o \notin DOMAIN dorders
       THEN /\ UNCHANGED tokenSeq
            /\ Respond(p, l, 404)
     ELSE
       LET order == dorders[o]
           status == IF st = NoStatus THEN order.paymentStatus ELSE st
           copy == [l EXCEPT
                      !.prev = order.paymentStatus,
                      !.st = Modified(order.paymentStatus, st, NoStatus),
                      !.txn = Modified(order.transactionId, txn, NoTxn)]
       IN
       IF status = "paid"
         THEN /\ tokenSeq' = tokenSeq + Len(order.items)
              /\ Goto(p, IF order.paymentStatus # "paid"
                           THEN "amp_email" ELSE "amp_save",
                      [copy EXCEPT
                         !.tokens = MakeTokens(order.items, tokenSeq, now),
                         !.dirty = TRUE])
         ELSE /\ UNCHANGED tokenSeq
              /\ Goto(p, "amp_save",
                      [copy EXCEPT !.dirty = (order.downloadTokens # <<>>)])

AdminMarkPaid_Email(p) ==
  /\ pc[p] = "amp_email"
  /\ UNCHANGED <<notShop, dorders, cart, now, tokenSeq, started>>
  /\ \E m \in EmailOutcomes : Goto(p, "amp_save", [loc[p] EXCEPT !.mail = m])

\* order.save(): $set of the paths the handler modified on its copy
SaveDigitalOrder(o, l) ==
  [dorders EXCEPT ![o] =
     [@ EXCEPT !.paymentStatus = IF l.st = NoStatus THEN @ ELSE l.st,
               !.transactionId = IF l.txn = NoTxn THEN @ ELSE l.txn,
               !.downloadTokens = IF l.dirty THEN l.tokens ELSE @]]

AdminMarkPaid_Save(p) ==
  /\ pc[p] = "amp_save"
  /\ UNCHANGED <<notShop, cart, now, tokenSeq, started>>
  /\ IF loc[p].txn = NoTxn \/ DigitalTxnIndexAccepts(loc[p].txn, loc[p].oid)
       THEN /\ dorders' = SaveDigitalOrder(loc[p].oid, loc[p])
            /\ Respond(p, loc[p], 200)
       ELSE /\ UNCHANGED dorders
            /\ Respond(p, loc[p], 500)

\* ---------------------------------------------------------- getDownloadLinks
\* who may ask: the buyers, another student and an administrator
Users == Buyers \cup {"u2", "admin"}

\* the url of a product's file: a public url is returned as it is, an
\* authenticated one is signed for the next 15 minutes
FileUrl == [pr \in Products |-> IF pr = "pA" THEN "direct" ELSE "signed"]

\* order.downloadTokens.find(t => t.product === it.product): 0 when none
FindToken(tokens, product) ==
  IF \E i \in DOMAIN tokens : tokens[i].product = product
    THEN CHOOSE i \in DOMAIN tokens :
           /\ tokens[i].product = product
           /\ \A j \in DOMAIN tokens : tokens[j].product = product => i <= j
    ELSE 0

\* a plausible slip: Math.min in place of Math.max
Min(a, b) == IF a <= b THEN a ELSE b

Max(a, b) == IF a >= b THEN a ELSE b

\* order.items.map(...): the file url and the token's data, per line item
Links(order) ==
  [i \in DOMAIN order.items |->
     LET product == order.items[i].product
         k == FindToken(order.downloadTokens, product)
     IN IF k = 0
          THEN [product |-> product, url |-> FileUrl[product], token |-> 0,
                expiresAt |-> 0, remaining |-> 0]
          ELSE LET t == order.downloadTokens[k] IN
               [product |-> product, url |-> FileUrl[product],
                token |-> t.token, expiresAt |-> t.expiresAt,
                remaining |-> Max(0, t.maxDownloads - t.downloads)]]

\* the response of getDownloadLinks
Answer(p, who, o, code, links) ==
  /\ pc' = [pc EXCEPT ![p] = "done"]
  /\ loc' = [loc EXCEPT ![p] =
       [NoLoc EXCEPT !.op = "getDownloadLinks", !.oid = o, !.u = who,
                     !.code = code, !.links = links]]

\* a plausible slip: the paymentStatus of the order is not looked at
GetDownloadLinksUnpaid(p, who, o) ==
  /\ Accept(p)
  /\ UNCHANGED <<notShop, dorders, cart, now, tokenSeq>>
  /\ IF o \notin DOMAIN dorders
       THEN Answer(p, who, o, 404, <<>>)
     ELSE IF dorders[o].user # who /\ who # "admin"
       THEN Answer(p, who, o, 403, <<>>)
     ELSE Answer(p, who, o, 200, Links(dorders[o]))

GetDownloadLinks(p, who, o) ==
  /\ Accept(p)
  /\ UNCHANGED <<notShop, dorders, cart, now, tokenSeq>>
  /\ IF o \notin DOMAIN dorders
       THEN Answer(p, who, o, 404, <<>>)
     ELSE IF dorders[o].user # who /\ who # "admin"
       THEN Answer(p, who, o, 403, <<>>)
     ELSE IF dorders[o].paymentStatus # "paid"
       THEN Answer(p, who, o, 403, <<>>)
     ELSE Answer(p, who, o, 200, Links(dorders[o]))

\* a request to record a download of the token of line item i of order o:
\* the router of the digital orders has no route for it and no handler
\* touches token.downloads, so the request falls through to the 404 answer
RecordDownload(p, o, i) ==
  /\ Accept(p)
  /\ UNCHANGED <<notShop, dorders, cart, now, tokenSeq>>
  /\ Respond(p, [NoLoc EXCEPT !.op = "recordDownload", !.oid = o], 404)

\* a week passes
Later ==
  /\ now <= MaxNow
  /\ now' = now + TokenTTL
  /\ UNCHANGED <<notShop, dorders, cart, tokenSeq, started, pc, loc>>

\* ========================================================= progress tracker
\* a plausible slip: Math.floor in place of Math.round
MathFloor(n, t) == (100 * n) \div t

\* Math.round((n / t) * 100) for t > 0: the nearest integer, a half rounds up
MathRound(n, t) == (200 * n + t) \div (2 * t)

\* Enrollment.findOne({student, course}): the _id of the document
EnrollmentOf(s, c) ==
  CHOOSE i \in DOMAIN enrollments :
    enrollments[i].student = s /\ enrollments[i].course = c

\* the handler's copy of Enrollment document i
EnrollmentCopy(i) ==
  [id |-> i, student |-> enrollments[i].student,
   progress |-> enrollments[i].progress,
   completed |-> enrollments[i].completed]

\* enrollment.progress = pct; enrollment.completed = pct === 100
Recomputed(copy, pct) ==
  [copy EXCEPT !.progress = pct, !.completed = (pct = 100)]

\* enrollmentSchema progress {min: 0, max: 100}, validated by save()
ProgressValid(pct) == 0 <= pct /\ pct <= 100

\* enrollment.save(): $set of the paths whose value the handler changed on the
\* copy it read
SaveEnrollment(read, copy) ==
  [enrollments EXCEPT ![copy.id] =
     [@ EXCEPT !.progress = IF copy.progress # read.progress
                              THEN copy.progress ELSE @,
               !.completed = IF copy.completed # read.completed
                               THEN copy.completed ELSE @]]

\* generateAndUploadCertificate(studentId, courseId), not awaited: a detached
\* task that starts at its Certificate.findOne
Invoke(s, c) ==
  issuers' = Append(issuers,
               [student |-> s, course |-> c, at |-> "findExisting", out |-> ""])

\* the lesson ids a request may name: those created so far, and one more
LessonIds == 1..(lessonSeq + 1)

\* ------------------------------------------------------------ updateProgress
UpdateProgress_Begin(p, s, c, lesson, flag) ==
  /\ Accept(p)
  /\ UNCHANGED <<notTracker, enrollments, trackerVars>>
  /\ LET l == [NoLoc EXCEPT !.op = "updateProgress", !.u = s, !.c = c,
                            !.lesson = lesson, !.flag = flag] IN
     IF ~IsEnrolled(s, c)
       THEN Respond(p, l, 403)
       ELSE Goto(p, "up_findLesson",
                 [l EXCEPT !.read = EnrollmentCopy(EnrollmentOf(s, c)),
                           !.enr = EnrollmentCopy(EnrollmentOf(s, c))])

\* a plausible slip: the lesson is not looked up in the course
UpdateProgress_NoLessonCheck(p) ==
  /\ pc[p] = "up_findLesson"
  /\ UNCHANGED <<notTracker, enrollments, trackerVars, started>>
  /\ Goto(p, "up_progress", loc[p])

UpdateProgress_FindLesson(p) ==
  /\ pc[p] = "up_findLesson"
  /\ UNCHANGED <<notTracker, enrollments, trackerVars, started>>
  /\ IF loc[p].lesson \in lessons
       THEN Goto(p, "up_progress", loc[p])
       ELSE Respond(p, loc[p], 404)

\* Progress.findOneAndUpdate(..., {new: true, upsert: true})
UpdateProgress_Progress(p) ==
  /\ pc[p] = "up_progress"
  /\ UNCHANGED <<notTracker, enrollments, lessons, lessonSeq, certificates,
                 issuers, started>>
  /\ LET k == <<loc[p].u, loc[p].c>>
         done == IF loc[p].flag
                   THEN progress[k].completedLessons \cup {loc[p].lesson}
                   ELSE progress[k].completedLessons \ {loc[p].lesson}
     IN /\ progress' = [progress EXCEPT ![k] =
                          [exists |-> TRUE, completedLessons |-> done,
                           lastWatchedLesson |-> loc[p].lesson]]
        /\ Goto(p, "up_count", [loc[p] EXCEPT !.n = Cardinality(done)])

\* Lesson.countDocuments, then the synchronisation with the Enrollment
\* a plausible slip: the issuer is invoked only when the percentage changed
UpdateProgress_CountOnChange(p) ==
  /\ pc[p] = "up_count"
  /\ UNCHANGED <<notTracker, enrollments, lessons, lessonSeq, progress,
                 certificates, started, issuers>>
  /\ LET total == Cardinality(lessons)
         pct == MathRound(loc[p].n, total)
     IN
     IF total = 0
       THEN Respond(p, loc[p], 200)
     ELSE IF loc[p].read.progress # pct
       THEN Goto(p, "up_save",
                 [loc[p] EXCEPT !.enr = Recomputed(loc[p].read, pct)])
     ELSE Respond(p, loc[p], 200)

UpdateProgress_Count(p) ==
  /\ pc[p] = "up_count"
  /\ UNCHANGED <<notTracker, enrollments, lessons, lessonSeq, progress,
                 certificates, started>>
  /\ LET total == Cardinality(lessons)
         pct == MathRound(loc[p].n, total)
     IN
     IF total = 0
       THEN /\ UNCHANGED issuers
            /\ Respond(p, loc[p], 200)
     ELSE IF loc[p].read.progress # pct
       THEN /\ UNCHANGED issuers
            /\ Goto(p, "up_save",
                    [loc[p] EXCEPT !.enr = Recomputed(loc[p].read, pct)])
     ELSE /\ IF loc[p].enr.completed
               THEN Invoke(loc[p].u, loc[p].c)
               ELSE UNCHANGED issuers
          /\ Respond(p, loc[p], 200)

UpdateProgress_Save(p) ==
  /\ pc[p] = "up_save"
  /\ UNCHANGED <<notTracker, lessons, lessonSeq, progress, certificates, started>>
  /\ IF ProgressValid(loc[p].enr.progress)
       THEN /\ enrollments' = SaveEnrollment(loc[p].read, loc[p].enr)
            /\ IF loc[p].enr.completed
                 THEN Invoke(loc[p].u, loc[p].c)
                 ELSE UNCHANGED issuers
            /\ Respond(p, loc[p], 200)
       ELSE /\ UNCHANGED <<enrollments, issuers>>
            /\ Respond(p, loc[p], 500)

\* ------------------------------------------------------------- recalculation
\* recalculateCourseProgress, and recalculateProgressForAllStudents as
\* createLesson and deleteLesson await it: the same steps; the endpoint answers
\* a failed save with 500, the helper catches it and its caller answers as usual
RecalcOps == {"recalculateCourseProgress", "createLesson", "deleteLesson"}

SuccessCode(op) == IF op = "createLesson" THEN 201 ELSE 200

Recalc_Return(p, l) == Respond(p, l, SuccessCode(l.op))

\* Enrollment.find({course}): copies of the course's enrollments
EnrollmentsOf(c) ==
  LET ids == SelectSeq([i \in 1..Len(enrollments) |-> i],
                       LAMBDA i : enrollments[i].course = c)
  IN [j \in 1..Len(ids) |-> EnrollmentCopy(ids[j])]

\* the for loop goes on to the next enrollment, or ends
Recalc_Continue(p, l) ==
  IF l.i < Len(l.enrs)
    THEN Goto(p, "rc_progress", [l EXCEPT !.i = l.i + 1])
    ELSE Recalc_Return(p, l)

RecalculateCourseProgress_Begin(p, c) ==
  /\ Accept(p)
  /\ UNCHANGED <<notTracker, enrollments, trackerVars>>
  /\ Goto(p, "rc_find",
          [NoLoc EXCEPT !.op = "recalculateCourseProgress", !.c = c])

Recalc_FindEnrollments(p) ==
  /\ pc[p] = "rc_find"
  /\ UNCHANGED <<notTracker, enrollments, trackerVars, started>>
  /\ Goto(p, "rc_count", [loc[p] EXCEPT !.enrs = EnrollmentsOf(loc[p].c)])

Recalc_Count(p) ==
  /\ pc[p] = "rc_count"
  /\ UNCHANGED <<notTracker, enrollments, trackerVars, started>>
  /\ IF Cardinality(lessons) = 0
       THEN Recalc_Return(p, loc[p])
       ELSE Recalc_Continue(p, [loc[p] EXCEPT !.total = Cardinality(lessons)])

Recalc_FindProgress(p) ==
  /\ pc[p] = "rc_progress"
  /\ UNCHANGED <<notTracker, enrollments, trackerVars, started>>
  /\ LET e == loc[p].enrs[loc[p].i]
         doc == progress[<<e.student, loc[p].c>>]
         pct == MathRound(Cardinality(doc.completedLessons), loc[p].total)
     IN IF doc.exists
          THEN Goto(p, "rc_save",
                    [loc[p] EXCEPT !.read = e, !.enr = Recomputed(e, pct)])
          ELSE Recalc_Continue(p, loc[p])

Recalc_Save(p) ==
  /\ pc[p] = "rc_save"
  /\ UNCHANGED <<notTracker, trackerVars, started>>
  /\ IF ProgressValid(loc[p].enr.progress)
       THEN /\ enrollments' = SaveEnrollment(loc[p].read, loc[p].enr)
            /\ Recalc_Continue(p, loc[p])
       ELSE /\ UNCHANGED enrollments
            /\ IF loc[p].op = "recalculateCourseProgress"
                 THEN Respond(p, loc[p], 500)
                 ELSE Recalc_Return(p, loc[p])

\* ------------------------------------------------ createLesson, deleteLesson
\* the createLesson calls that have not inserted their lesson yet
Creating == Cardinality({q \in Procs : pc[q] = "cl_create"})

CreateLesson_Begin(p, c) ==
  /\ Accept(p)
  /\ lessonSeq + Creating < MaxLessons
  /\ UNCHANGED <<notTracker, enrollments, trackerVars>>
  /\ Goto(p, "cl_create", [NoLoc EXCEPT !.op = "createLesson", !.c = c])

CreateLesson_Create(p) ==
  /\ pc[p] = "cl_create"
  /\ UNCHANGED <<notTracker, enrollments, progress, certificates, issuers, started>>
  /\ lessons' = lessons \cup {lessonSeq + 1}
  /\ lessonSeq' = lessonSeq + 1
  /\ Goto(p, "rc_find", [loc[p] EXCEPT !.lesson = lessonSeq + 1])

DeleteLesson_Begin(p, lesson) ==
  /\ Accept(p)
  /\ UNCHANGED <<notTracker, enrollments, trackerVars>>
  /\ LET l == [NoLoc EXCEPT !.op = "deleteLesson", !.c = "c1",
                            !.lesson = lesson] IN
     IF lesson \in lessons
       THEN Goto(p, "dl_delete", l)
       ELSE Respond(p, l, 404)

DeleteLesson_Delete(p) ==
  /\ pc[p] = "dl_delete"
  /\ UNCHANGED <<notTracker, enrollments, lessonSeq, progress, certificates,
                 issuers, started>>
  /\ lessons' = lessons \ {loc[p].lesson}
  /\ Goto(p, "rc_find", loc[p])

\* -------------------------------------------------- updateEnrollmentProgress
\* the percentages a request may carry; 150 is out of range
Percentages == {0, 50, 100, 150}

UpdateEnrollmentProgress_Begin(p, id, pct) ==
  /\ Accept(p)
  /\ UNCHANGED <<notTracker, enrollments, trackerVars>>
  /\ LET l == [NoLoc EXCEPT !.op = "updateEnrollmentProgress", !.oid = id] IN
     IF pct < 0 \/ pct > 100
       THEN Respond(p, l, 400)
     ELSE IF id \notin DOMAIN enrollments
       THEN Respond(p, l, 404)
     ELSE Goto(p, "uep_save",
               [l EXCEPT !.read = EnrollmentCopy(id),
                         !.enr = Recomputed(EnrollmentCopy(id), pct)])

UpdateEnrollmentProgress_Save(p) ==
  /\ pc[p] = "uep_save"
  /\ UNCHANGED <<notTracker, trackerVars, started>>
  /\ enrollments' = SaveEnrollment(loc[p].read, loc[p].enr)
  /\ Respond(p, loc[p], 200)

\* ------------------------------------------ generateAndUploadCertificate
\* Certificate.findOne({student, course})
HasCertificate(s, c) ==
  \E i \in DOMAIN certificates :
    certificates[i].student = s /\ certificates[i].course = c

\* a plausible slip: the unique index on (student, course) is not declared
CertificateIndexOff(s, c) == TRUE

\* certificateSchema.index({student: 1, course: 1}, {unique: true})
CertificateIndexAccepts(s, c) == ~HasCertificate(s, c)

\* task t ends with outcome `out`
IssuerEnds(t, out) ==
  issuers' = [issuers EXCEPT ![t] = [@ EXCEPT !.at = "ended", !.out = out]]

\* a plausible slip: the existing Certificate is not looked up
Issue_NoExistingCheck(t) ==
  /\ t \in DOMAIN issuers
  /\ issuers[t].at = "findExisting"
  /\ UNCHANGED <<notTracker, enrollments, lessons, lessonSeq, progress,
                 certificates, started, pc, loc>>
  /\ issuers' = [issuers EXCEPT ![t].at = "create"]

Issue_FindExisting(t) ==
  /\ t \in DOMAIN issuers
  /\ issuers[t].at = "findExisting"
  /\ UNCHANGED <<notTracker, enrollments, lessons, lessonSeq, progress,
                 certificates, started, pc, loc>>
  /\ IF HasCertificate(issuers[t].student, issuers[t].course)
       THEN IssuerEnds(t, "exists")
       ELSE issuers' = [issuers EXCEPT ![t].at = "create"]

\* the rendering or the upload throws; the catch block logs it
Issue_Fail(t) ==
  /\ t \in DOMAIN issuers
  /\ issuers[t].at = "create"
  /\ UNCHANGED <<notTracker, enrollments, lessons, lessonSeq, progress,
                 certificates, started, pc, loc>>
  /\ IssuerEnds(t, "failed")

\* Certificate.create after the upload; a duplicate-key error is caught
Issue_Create(t) ==
  /\ t \in DOMAIN issuers
  /\ issuers[t].at = "create"
  /\ UNCHANGED <<notTracker, enrollments, lessons, lessonSeq, progress,
                 started, pc, loc>>
  /\ IF CertificateIndexAccepts(issuers[t].student, issuers[t].course)
       THEN /\ certificates' = Append(certificates,
                 [student |-> issuers[t].student, course |-> issuers[t].course])
            /\ IssuerEnds(t, "created")
       ELSE /\ UNCHANGED certificates
            /\ IssuerEnds(t, "duplicate")

\* ------------------------------------------------------------ specification
Init ==
  /\ price \in [Courses -> {0, 500}]
  /\ orders = <<>>
  /\ enrollments = <<>>
  /\ dorders = <<>>
  /\ cart = [u \in Buyers |-> EmptyCart]
  /\ now = 0
  /\ tokenSeq = 0
  /\ lessons = {}
  /\ lessonSeq = 0
  /\ progress = [k \in Buyers \X Courses |-> NoProgress]
  /\ certificates = <<>>
  /\ issuers = <<>>
  /\ budget = MaxRequests
  /\ started = 0
  /\ pc = [p \in Procs |-> "idle"]
  /\ loc = [p \in Procs |-> NoLoc]

Next ==
  \E p \in Procs :
    \/ \E u \in Buyers, c \in Courses, paid \in BOOLEAN, txn \in TxnIds \cup {NoTxn} :
         CreateOrder_Begin(p, u, c, paid, txn)
    \/ CreateOrder_FreeOrder(p)
    \/ CreateOrder_Enroll(p)
    \/ CreateOrder_Email(p)
    \/ CreateOrder_FindOrder(p)
    \/ CreateOrder_Order(p)
    \/ \E o \in OrderIds, st \in {"pending", "paid", "failed"},
          txn \in TxnIds \cup {NoTxn} :
         UpdateOrderStatus_Begin(p, o, st, txn)
    \/ UpdateOrderStatus_FindEnrollment(p)
    \/ UpdateOrderStatus_Enroll(p)
    \/ UpdateOrderStatus_Email(p)
    \/ UpdateOrderStatus_Save(p)
    \/ \E o \in OrderIds, st \in {NoStatus, "pending", "paid", "failed"},
          txn \in TxnIds \cup {NoTxn} :
         UpdateOrder_Begin(p, o, st, txn)
    \/ UpdateOrder_FindEnrollment(p)
    \/ UpdateOrder_Enroll(p)
    \/ UpdateOrder_Email(p)
    \/ UpdateOrder_Save(p)
    \/ \E s \in Buyers, c \in Courses : CreateEnrollment_Begin(p, s, c)
    \/ CreateEnrollment_Enroll(p)

Spec == Init /\ [][Next]_vars

\* the digital shop: buyers with a filled cart, the checkout and the admin
InitDigital ==
  /\ price = [c \in Courses |-> 0]
  /\ orders = <<>>
  /\ enrollments = <<>>
  /\ dorders = <<>>
  /\ cart \in [Buyers -> CartChoices]
  /\ now = 0
  /\ tokenSeq = 0
  /\ lessons = {}
  /\ lessonSeq = 0
  /\ progress = [k \in Buyers \X Courses |-> NoProgress]
  /\ certificates = <<>>
  /\ issuers = <<>>
  /\ budget = MaxRequests
  /\ started = 0
  /\ pc = [p \in Procs |-> "idle"]
  /\ loc = [p \in Procs |-> NoLoc]

NextDigital ==
  \/ Tick
  \/ \E p \in Procs :
       \/ \E u \in Buyers, method \in BOOLEAN, txn \in TxnIds \cup {NoTxn} :
            CheckoutFromCart_Begin(p, u, method, txn)
       \/ CheckoutFromCart_FreeOrder(p)
       \/ CheckoutFromCart_SaveTokens(p)
       \/ CheckoutFromCart_Email(p)
       \/ CheckoutFromCart_ClearCart(p)
       \/ CheckoutFromCart_Order(p)
       \/ \E o \in DigitalOrderIds, st \in {NoStatus, "pending", "paid", "failed"},
             txn \in TxnIds \cup {NoTxn} :
            AdminMarkPaid_Begin(p, o, st, txn)
       \/ AdminMarkPaid_Email(p)
       \/ AdminMarkPaid_Save(p)

SpecDigital == InitDigital /\ [][NextDigital]_vars

\* one student enrolled in a course of k lessons, nothing completed yet
InitCourse(k, requests) ==
  /\ price = [c \in Courses |-> 0]
  /\ orders = <<>>
  /\ enrollments = <<NewEnrollment("u1", "c1")>>
  /\ dorders = <<>>
  /\ cart = [u \in Buyers |-> EmptyCart]
  /\ now = 0
  /\ tokenSeq = 0
  /\ lessons = 1..k
  /\ lessonSeq = k
  /\ progress = [x \in Buyers \X Courses |-> NoProgress]
  /\ certificates = <<>>
  /\ issuers = <<>>
  /\ budget = requests
  /\ started = 0
  /\ pc = [p \in Procs |-> "idle"]
  /\ loc = [p \in Procs |-> NoLoc]

\* the detached issuer tasks take their steps whenever they are ready
TaskIds == 1..(MaxRequests + MaxToggles)

Issuer ==
  \E t \in TaskIds :
    \/ Issue_FindExisting(t)
    \/ Issue_Fail(t)
    \/ Issue_Create(t)

\* the student's requests race: updateProgress calls of a fixed lesson set
InitRace == \E k \in 1..MaxLessons : InitCourse(k, MaxRequests)

NextRace ==
  \/ Issuer
  \/ \E p \in Procs :
       \/ \E s \in Buyers, c \in Courses, lesson \in LessonIds, flag \in BOOLEAN :
            UpdateProgress_Begin(p, s, c, lesson, flag)
       \/ UpdateProgress_FindLesson(p)
       \/ UpdateProgress_Progress(p)
       \/ UpdateProgress_Count(p)
       \/ UpdateProgress_Save(p)

SpecRace == InitRace /\ [][NextRace]_vars

\* the student's requests come one after the other
Solo(p) == \A q \in Procs : q # p => Free(q)

InitToggle == \E k \in 1..ToggleLessons : InitCourse(k, MaxToggles)

NextToggle ==
  \/ Issuer
  \/ \E p \in Procs :
       \/ \E s \in Buyers, c \in Courses, lesson \in LessonIds, flag \in BOOLEAN :
            Solo(p) /\ UpdateProgress_Begin(p, s, c, lesson, flag)
       \/ UpdateProgress_FindLesson(p)
       \/ UpdateProgress_Progress(p)
       \/ UpdateProgress_Count(p)
       \/ UpdateProgress_Save(p)

SpecToggle == InitToggle /\ [][NextToggle]_vars

\* the whole tracker: the student, the instructor and the issuer tasks
InitProgress == \E k \in 0..MaxLessons : InitCourse(k, MaxRequests)

EnrollmentIds == 1..(Len(enrollments) + 1)

NextProgress ==
  \/ Issuer
  \/ \E p \in Procs :
       \/ \E s \in Buyers, c \in Courses, lesson \in LessonIds, flag \in BOOLEAN :
            UpdateProgress_Begin(p, s, c, lesson, flag)
       \/ UpdateProgress_FindLesson(p)
       \/ UpdateProgress_Progress(p)
       \/ UpdateProgress_Count(p)
       \/ UpdateProgress_Save(p)
       \/ \E c \in Courses : RecalculateCourseProgress_Begin(p, c)
       \/ Recalc_FindEnrollments(p)
       \/ Recalc_Count(p)
       \/ Recalc_FindProgress(p)
       \/ Recalc_Save(p)
       \/ \E c \in Courses : CreateLesson_Begin(p, c)
       \/ CreateLesson_Create(p)
       \/ \E lesson \in LessonIds : DeleteLesson_Begin(p, lesson)
       \/ DeleteLesson_Delete(p)
       \/ \E id \in EnrollmentIds, pct \in Percentages :
            UpdateEnrollmentProgress_Begin(p, id, pct)
       \/ UpdateEnrollmentProgress_Save(p)

SpecProgress == InitProgress /\ [][NextProgress]_vars

\* the same tracker when every request waits for the one before it to end
NextSolo ==
  \/ Issuer
  \/ \E p \in Procs :
       \/ \E s \in Buyers, c \in Courses, lesson \in LessonIds, flag \in BOOLEAN :
            Solo(p) /\ UpdateProgress_Begin(p, s, c, lesson, flag)
       \/ UpdateProgress_FindLesson(p)
       \/ UpdateProgress_Progress(p)
       \/ UpdateProgress_Count(p)
       \/ UpdateProgress_Save(p)
       \/ \E c \in Courses : Solo(p) /\ RecalculateCourseProgress_Begin(p, c)
       \/ Recalc_FindEnrollments(p)
       \/ Recalc_Count(p)
       \/ Recalc_FindProgress(p)
       \/ Recalc_Save(p)
       \/ \E c \in Courses : Solo(p) /\ CreateLesson_Begin(p, c)
       \/ CreateLesson_Create(p)
       \/ \E lesson \in LessonIds : Solo(p) /\ DeleteLesson_Begin(p, lesson)
       \/ DeleteLesson_Delete(p)
       \/ \E id \in EnrollmentIds, pct \in Percentages :
            Solo(p) /\ UpdateEnrollmentProgress_Begin(p, id, pct)
       \/ UpdateEnrollmentProgress_Save(p)

SpecSolo == InitProgress /\ [][NextSolo]_vars

\* a student who is not enrolled yet: enrolling and lesson updates race
InitGate ==
  \E k \in 1..MaxLessons :
    /\ price = [c \in Courses |-> 0]
    /\ orders = <<>>
    /\ enrollments = <<>>
    /\ dorders = <<>>
    /\ cart = [u \in Buyers |-> EmptyCart]
    /\ now = 0
    /\ tokenSeq = 0
    /\ lessons = 1..k
    /\ lessonSeq = k
    /\ progress = [x \in Buyers \X Courses |-> NoProgress]
    /\ certificates = <<>>
    /\ issuers = <<>>
    /\ budget = MaxRequests
    /\ started = 0
    /\ pc = [p \in Procs |-> "idle"]
    /\ loc = [p \in Procs |-> NoLoc]

NextGate ==
  \/ Issuer
  \/ \E p \in Procs :
       \/ \E s \in Buyers, c \in Courses : CreateEnrollment_Begin(p, s, c)
       \/ CreateEnrollment_Enroll(p)
       \/ \E s \in Buyers, c \in Courses, lesson \in LessonIds, flag \in BOOLEAN :
            UpdateProgress_Begin(p, s, c, lesson, flag)
       \/ UpdateProgress_FindLesson(p)
       \/ UpdateProgress_Progress(p)
       \/ UpdateProgress_Count(p)
       \/ UpdateProgress_Save(p)

SpecGate == InitGate /\ [][NextGate]_vars

\* buyers at the catalog: orders and enrollments for any course id
NextCatalog ==
  \E p \in Procs :
    \/ \E u \in Buyers, c \in CourseIds, paid \in BOOLEAN, txn \in TxnIds \cup {NoTxn} :
         CreateOrder_Begin(p, u, c, paid, txn)
    \/ CreateOrder_FreeOrder(p)
    \/ CreateOrder_Enroll(p)
    \/ CreateOrder_Email(p)
    \/ CreateOrder_FindOrder(p)
    \/ CreateOrder_Order(p)
    \/ \E s \in Buyers, c \in Courses : CreateEnrollment_Begin(p, s, c)
    \/ CreateEnrollment_Enroll(p)

SpecCatalog == Init /\ [][NextCatalog]_vars

\* both ledgers side by side: course orders and cart checkouts
InitLedger ==
  /\ price \in [Courses -> {0, 500}]
  /\ orders = <<>>
  /\ enrollments = <<>>
  /\ dorders = <<>>
  /\ cart \in [Buyers -> CartChoices]
  /\ now = 0
  /\ tokenSeq = 0
  /\ lessons = {}
  /\ lessonSeq = 0
  /\ progress = [k \in Buyers \X Courses |-> NoProgress]
  /\ certificates = <<>>
  /\ issuers = <<>>
  /\ budget = MaxRequests
  /\ started = 0
  /\ pc = [p \in Procs |-> "idle"]
  /\ loc = [p \in Procs |-> NoLoc]

NextLedger ==
  \E p \in Procs :
    \/ \E u \in Buyers, c \in Courses, paid \in BOOLEAN, txn \in TxnIds \cup {NoTxn} :
         CreateOrder_Begin(p, u, c, paid, txn)
    \/ CreateOrder_FreeOrder(p)
    \/ CreateOrder_Enroll(p)
    \/ CreateOrder_Email(p)
    \/ CreateOrder_FindOrder(p)
    \/ CreateOrder_Order(p)
    \/ \E u \in Buyers, method \in BOOLEAN, txn \in TxnIds \cup {NoTxn} :
         CheckoutFromCart_Begin(p, u, method, txn)
    \/ CheckoutFromCart_FreeOrder(p)
    \/ CheckoutFromCart_SaveTokens(p)
    \/ CheckoutFromCart_Email(p)
    \/ CheckoutFromCart_ClearCart(p)
    \/ CheckoutFromCart_Order(p)

SpecLedger == InitLedger /\ [][NextLedger]_vars

\* purchases and a one-lesson course, with the email collaborator and the
\* certificate issuer working behind the requests
InitEffects ==
  /\ price \in [Courses -> {0, 500}]
  /\ orders = <<>>
  /\ enrollments = <<>>
  /\ dorders = <<>>
  /\ cart \in [Buyers -> CartChoices]
  /\ now = 0
  /\ tokenSeq = 0
  /\ lessons = {1}
  /\ lessonSeq = 1
  /\ progress = [k \in Buyers \X Courses |-> NoProgress]
  /\ certificates = <<>>
  /\ issuers = <<>>
  /\ budget = MaxRequests
  /\ started = 0
  /\ pc = [p \in Procs |-> "idle"]
  /\ loc = [p \in Procs |-> NoLoc]

\* the buyer and the admin act one call at a time, and so does the student
Purchases == {"createOrder", "updateOrderStatus", "checkoutFromCart", "adminMarkPaid"}

Quiet(ops) == \A q \in Procs : Free(q) \/ loc[q].op \notin ops

NextEffects ==
  \/ Issuer
  \/ \E p \in Procs :
       \/ \E u \in Buyers, c \in Courses, paid \in BOOLEAN, txn \in TxnIds \cup {NoTxn} :
            Quiet(Purchases) /\ CreateOrder_Begin(p, u, c, paid, txn)
       \/ CreateOrder_FreeOrder(p)
       \/ CreateOrder_Enroll(p)
       \/ CreateOrder_Email(p)
       \/ CreateOrder_FindOrder(p)
       \/ CreateOrder_Order(p)
       \/ \E o \in OrderIds, st \in {"pending", "paid", "failed"},
             txn \in TxnIds \cup {NoTxn} :
            Quiet(Purchases) /\ UpdateOrderStatus_Begin(p, o, st, txn)
       \/ UpdateOrderStatus_FindEnrollment(p)
       \/ UpdateOrderStatus_Enroll(p)
       \/ UpdateOrderStatus_Email(p)
       \/ UpdateOrderStatus_Save(p)
       \/ \E u \in Buyers, method \in BOOLEAN, txn \in TxnIds \cup {NoTxn} :
            Quiet(Purchases) /\ CheckoutFromCart_Begin(p, u, method, txn)
       \/ CheckoutFromCart_FreeOrder(p)
       \/ CheckoutFromCart_SaveTokens(p)
       \/ CheckoutFromCart_Email(p)
       \/ CheckoutFromCart_ClearCart(p)
       \/ CheckoutFromCart_Order(p)
       \/ \E o \in DigitalOrderIds, st \in {NoStatus, "pending", "paid", "failed"},
             txn \in TxnIds \cup {NoTxn} :
            Quiet(Purchases) /\ AdminMarkPaid_Begin(p, o, st, txn)
       \/ AdminMarkPaid_Email(p)
       \/ AdminMarkPaid_Save(p)
       \/ \E s \in Buyers, c \in Courses, lesson \in LessonIds, flag \in BOOLEAN :
            Quiet({"updateProgress"}) /\ UpdateProgress_Begin(p, s, c, lesson, flag)
       \/ UpdateProgress_FindLesson(p)
       \/ UpdateProgress_Progress(p)
       \/ UpdateProgress_Count(p)
       \/ UpdateProgress_Save(p)

SpecEffects == InitEffects /\ [][NextEffects]_vars

\* the download broker: purchases one at a time, download requests at any
\* moment, and time passing
NextBroker ==
  \/ Tick
  \/ Later
  \/ \E p \in Procs :
       \/ \E u \in Buyers, method \in BOOLEAN, txn \in TxnIds \cup {NoTxn} :
            Quiet(Purchases) /\ CheckoutFromCart_Begin(p, u, method, txn)
       \/ CheckoutFromCart_FreeOrder(p)
       \/ CheckoutFromCart_SaveTokens(p)
       \/ CheckoutFromCart_Email(p)
       \/ CheckoutFromCart_ClearCart(p)
       \/ CheckoutFromCart_Order(p)
       \/ \E o \in DigitalOrderIds, st \in {NoStatus, "pending", "paid", "failed"},
             txn \in TxnIds \cup {NoTxn} :
            Quiet(Purchases) /\ AdminMarkPaid_Begin(p, o, st, txn)
       \/ AdminMarkPaid_Email(p)
       \/ AdminMarkPaid_Save(p)
       \/ \E who \in Users, o \in DigitalOrderIds : GetDownloadLinks(p, who, o)

SpecBroker == InitDigital /\ [][NextBroker]_vars

\* the buyer checks out, fetches the links and reports downloads
NextConsume ==
  \/ Tick
  \/ \E p \in Procs :
       \/ \E u \in Buyers, method \in BOOLEAN, txn \in TxnIds \cup {NoTxn} :
            Quiet(Purchases) /\ CheckoutFromCart_Begin(p, u, method, txn)
       \/ CheckoutFromCart_FreeOrder(p)
       \/ CheckoutFromCart_SaveTokens(p)
       \/ CheckoutFromCart_Email(p)
       \/ CheckoutFromCart_ClearCart(p)
       \/ CheckoutFromCart_Order(p)
       \/ \E who \in Buyers, o \in DigitalOrderIds : GetDownloadLinks(p, who, o)
       \/ \E o \in DigitalOrderIds, i \in 1..Cardinality(Products) :
            RecordDownload(p, o, i)

SpecConsume == InitDigital /\ [][NextConsume]_vars

\* the student keeps marking lessons of the course as completed, one call at
\* a time; a rendering or an upload fails only while a later call is to come
NextRetry ==
  \/ \E t \in TaskIds :
       \/ Issue_FindExisting(t)
       \/ started < budget /\ Issue_Fail(t)
       \/ Issue_Create(t)
  \/ \E p \in Procs :
       \/ \E s \in Buyers, c \in Courses, lesson \in lessons :
            Solo(p) /\ UpdateProgress_Begin(p, s, c, lesson, TRUE)
       \/ UpdateProgress_FindLesson(p)
       \/ UpdateProgress_Progress(p)
       \/ UpdateProgress_Count(p)
       \/ UpdateProgress_Save(p)

\* the event loop runs every handler and every task that can run, and the
\* student's next call arrives
SpecRetry == InitToggle /\ [][NextRetry]_vars /\ WF_vars(NextRetry)

\* ================================================================== claims
\* a finished call of updateOrderStatus with target status "paid"
PaidCallDone(p) ==
  /\ pc[p] = "done"
  /\ loc[p].op = "updateOrderStatus"
  /\ loc[p].req = "paid"

\* C1: in every reachable state there is at most one Enrollment per
\* (student, course), whichever handlers create enrollments for the pair and
\* however they interleave.
C1_OneEnrollmentPerPair ==
  \A i, j \in DOMAIN enrollments :
    (/\ enrollments[i].student = enrollments[j].student
     /\ enrollments[i].course = enrollments[j].course) => i = j

\* two updateOrderStatus(o, "paid") calls raced on one order: both passed the
\* Enrollment.findOne check, one inserted, the other's insert was rejected
C1_Witness ==
  \E p, q \in Procs :
    /\ PaidCallDone(p) /\ loc[p].code = 200
    /\ PaidCallDone(q) /\ loc[q].code = 500 /\ loc[q].mail = ""
    /\ loc[p].oid = loc[q].oid
    /\ Len(enrollments) = 1

\* C2: a setPaymentStatus(o, "paid") call for an order of a priced course that
\* an earlier or racing call has turned to paid (the second of two calls, or the
\* loser of a race) raises no error and returns the successful result of the
\* first.
C2_RepeatedPaidCallSucceeds ==
  \A p \in Procs :
    (/\ PaidCallDone(p)
     /\ loc[p].oid \in DOMAIN orders
     /\ price[orders[loc[p].oid].course] > 0
     /\ orders[loc[p].oid].paymentStatus = "paid") => loc[p].code = 200


\* C3: adminMarkPaid with target "paid" on a DigitalOrder it read as already
\* paid, and that holds tokens, leaves the order's downloadTokens unchanged: the
\* same token values,
\* expiresAt and downloads after its save as before.
C3_RemarkPaidKeepsTokens ==
  [][\A p \in Procs :
       (/\ pc[p] = "amp_save" /\ pc'[p] = "done"
        /\ loc[p].req = "paid" /\ loc[p].prev = "paid"
        /\ dorders[loc[p].oid].downloadTokens # <<>>)
       => dorders'[loc[p].oid].downloadTokens
            = dorders[loc[p].oid].downloadTokens]_vars

\* C4: in every reachable state there is at most one Certificate per
\* (student, course), also when several issuer invocations for the pair have
\* each passed the existence check before any of them persisted its record.
C4_OneCertificatePerPair ==
  \A i, j \in DOMAIN certificates :
    (/\ certificates[i].student = certificates[j].student
     /\ certificates[i].course = certificates[j].course) => i = j

\* two invocations for one pair both went past Certificate.findOne; one
\* inserted the record, the other's insert was rejected by the index
C4_Witness ==
  \E t, u \in DOMAIN issuers :
    /\ issuers[t].student = issuers[u].student
    /\ issuers[t].course = issuers[u].course
    /\ issuers[t].out = "created"
    /\ issuers[u].out = "duplicate"
    /\ Len(certificates) = 1

\* round(100 * n / t) as the specification writes it: the integer k nearest to
\* 100 * n / t, a half rounding up
RoundPct(n, t) ==
  CHOOSE k \in 0..(100 * n + 1) : 2 * t * k - t <= 200 * n /\ 200 * n < 2 * t * k + t

\* C5: with a fixed non-empty lesson set and the student's calls coming one
\* after the other, whenever no call is in progress the stored progress is
\* round(100 * |completedLessons| / totalLessons) (with 4 lessons: 25 per
\* completed lesson) and completed is true exactly when every lesson is done.
C5_ProgressFollowsToggles ==
  (\A p \in Procs : Free(p)) =>
    LET n == Cardinality(progress[<<"u1", "c1">>].completedLessons)
        t == Cardinality(lessons)
    IN /\ enrollments[1].progress = RoundPct(n, t)
       /\ t = 4 => enrollments[1].progress = 25 * n
       /\ enrollments[1].completed = (n = t)

\* the fourth call in a row completed the fourth of 4 lessons
C5_Witness ==
  /\ \A p \in Procs : Free(p)
  /\ started = 4
  /\ Cardinality(lessons) = 4
  /\ progress[<<"u1", "c1">>].completedLessons = lessons
  /\ enrollments[1].progress = 100
  /\ enrollments[1].completed

\* C6: updateProgress invokes the certificate issuer only in a call that read
\* the Enrollment as not yet completed (and whose recomputed percent reaches
\* 100); a call that finds the Enrollment already completed, such as one
\* re-marking a completed lesson while the percent stays 100, invokes nothing.
C6_IssuerOnlyOnReaching100 ==
  [][\A p \in Procs :
       (/\ pc[p] \in {"up_count", "up_save"} /\ pc'[p] = "done"
        /\ Len(issuers') = Len(issuers) + 1)
       => ~loc[p].read.completed]_vars

\* C7: in every reachable state every stored Enrollment has completed true
\* if and only if its progress is 100.
C7_CompletedIffHundred ==
  \A i \in DOMAIN enrollments :
    enrollments[i].completed <=> (enrollments[i].progress = 100)

\* C8: once the racing updateProgress calls of the student have all finished
\* with success, the stored progress is round(100 * |completedLessons| /
\* totalLessons) of the final Progress document.
C8_RaceEndsConsistent ==
  (\A p \in Procs : pc[p] = "done" /\ loc[p].op = "updateProgress"
                      /\ loc[p].code = 200) =>
    enrollments[1].progress
      = RoundPct(Cardinality(progress[<<"u1", "c1">>].completedLessons),
                 Cardinality(lessons))

\* the percent and the flag the specification derives for enrollment e from
\* the Progress document (none: nothing completed) and the current lessons
Rederived(e) ==
  LET n == Cardinality(progress[<<e.student, e.course>>].completedLessons)
  IN /\ e.progress = RoundPct(n, Cardinality(lessons))
     /\ e.completed = (e.progress = 100)

\* C9: when a recalculation (the endpoint, or the helper inside createLesson
\* and deleteLesson) of a course with lessons answers, the requests coming one
\* after the other, every Enrollment holds progress = round(100 * |completedLessons|
\* / lesson count) and completed = (progress = 100), also for a student
\* without a Progress document and after lessons were added or removed.
C9_RecomputeAllRederives ==
  [][\A p \in Procs :
       (/\ loc[p].op \in RecalcOps
        /\ pc[p] \in {"rc_count", "rc_progress", "rc_save"} /\ pc'[p] = "done"
        /\ Solo(p)
        /\ lessons # {})
       => \A i \in DOMAIN enrollments' : Rederived(enrollments'[i])]_vars

\* C10: when a recalculation or an updateProgress call finds the course with
\* zero lessons and answers, the requests coming one after the other, the
\* Enrollment of a student with recorded completions holds progress 0, not the
\* positive percent it had before the lessons were removed.
C10_ZeroLessonsZeroPercent ==
  [][\A p \in Procs :
       (/\ pc[p] \in {"rc_count", "up_count"} /\ pc'[p] = "done"
        /\ Solo(p)
        /\ lessons = {})
       => \A i \in DOMAIN enrollments' :
            progress[<<enrollments'[i].student, enrollments'[i].course>>]
                .completedLessons # {}
            => enrollments'[i].progress = 0]_vars

\* handler p is the one that takes the request arriving in this step
Serves(p) ==
  /\ Free(p)
  /\ \A q \in Procs : q < p => ~Free(q)
  /\ started' = started + 1

\* p answers in this step with `code`
Answers(p, code) == pc'[p] = "done" /\ loc'[p].code = code

\* C11: updateProgress answers 403 exactly when the student has no Enrollment
\* for the course and, for an enrolled student, 404 exactly when the lesson is
\* not a lesson of the course; the steps of such a call leave the Progress
\* document and the Enrollment collection as they were.
C11_RejectedUpdateChangesNothing ==
  [][\A p \in Procs :
       /\ (Serves(p) /\ loc'[p].op = "updateProgress") =>
            /\ Answers(p, 403) <=>
                 (\A i \in DOMAIN enrollments :
                    enrollments[i].student # "u1" \/ enrollments[i].course # "c1")
            /\ UNCHANGED <<progress, enrollments>>
       /\ (pc[p] = "up_findLesson" /\ pc'[p] # "up_findLesson") =>
            /\ Answers(p, 404) <=> (loc[p].lesson \notin lessons)
            /\ Answers(p, 404) \/ pc'[p] = "up_progress"
            /\ UNCHANGED <<progress, enrollments>>]_vars

\* one call was refused for the missing Enrollment and another, after the
\* student enrolled, for a lesson outside the course; nothing was recorded
C11_Witness ==
  \E p, q \in Procs :
    /\ pc[p] = "done" /\ loc[p].op = "updateProgress" /\ loc[p].code = 403
    /\ pc[q] = "done" /\ loc[q].op = "updateProgress" /\ loc[q].code = 404
    /\ ~progress[<<"u1", "c1">>].exists
    /\ enrollments = <<NewEnrollment("u1", "c1")>>

\* the pair holds a fresh Enrollment: progress 0, not completed
FreshlyEnrolled(u, c) ==
  \E j \in DOMAIN enrollments :
    enrollments[j] = [student |-> u, course |-> c, progress |-> 0,
                      completed |-> FALSE]

C13_OneActiveOrderPerPair ==
  \A i, j \in DOMAIN orders :
    (/\ price[orders[i].course] > 0
     /\ orders[i].user = orders[j].user
     /\ orders[i].course = orders[j].course
     /\ orders[i].paymentStatus \in {"pending", "paid"}
     /\ orders[j].paymentStatus \in {"pending", "paid"}) => i = j

\* the buyer is enrolled in the course
Enrolled(u, c) ==
  \E i \in DOMAIN enrollments :
    enrollments[i].student = u /\ enrollments[i].course = c

\* the buyer has an Order for the course that is pending or paid
ActiveOrder(u, c) ==
  \E i \in DOMAIN orders :
    /\ orders[i].user = u /\ orders[i].course = c
    /\ orders[i].paymentStatus \in {"pending", "paid"}

C15_TransactionIdUnique ==
  /\ \A i, j \in DOMAIN orders :
       orders[i].transactionId = orders[j].transactionId => i = j
  /\ \A i, j \in DOMAIN dorders :
       dorders[i].transactionId = dorders[j].transactionId => i = j
  /\ \A i \in DOMAIN orders : \A j \in DOMAIN dorders :
       orders[i].transactionId # dorders[j].transactionId

\* the statement a handler runs after its email block
AfterEmail(label) ==
  CASE label = "uos_email" -> "uos_save"
    [] label = "ck_email"  -> "ck_clearCart"
    [] label = "amp_email" -> "amp_save"
    [] OTHER               -> "done"

\* a call ends now, and its confirmation email had failed
EndsAfterFailedEmail(p, label) ==
  pc[p] = label /\ pc'[p] = "done" /\ loc'[p].mail = "failed"

\* the buyer is enrolled in the course once the step is taken
EnrolledAfter(u, c) ==
  \E i \in DOMAIN enrollments' :
    enrollments'[i].student = u /\ enrollments'[i].course = c

\* C16: a failed side effect does not change what the triggering call does.
\* Whether the confirmation email is sent or fails, the handler goes on to the
\* same statement and no record changes, so what was stored before the email
\* stays stored; a call whose email failed answers success, and where its save
\* follows the email the paid status and the grant are stored by it, provided
\* the save is not rejected by the transactionId index; a failed certificate task changes no
\* Enrollment and no response, and the call that started a certificate task
\* answers 200.
C16_SideEffectFailureHarmless ==
  [][/\ \A p \in Procs :
          /\ (pc[p] \in {"co_email", "uos_email", "ck_email", "amp_email"}
              /\ pc'[p] # pc[p]) =>
               /\ UNCHANGED <<orders, enrollments, dorders, cart>>
               /\ loc'[p].mail \in EmailOutcomes
               /\ pc'[p] = AfterEmail(pc[p])
               /\ pc[p] = "co_email" => loc'[p].code = 201
          /\ EndsAfterFailedEmail(p, "co_email") =>
               /\ loc'[p].code = 201
               /\ EnrolledAfter(loc[p].u, loc[p].c)
               /\ orders'[loc[p].oid].paymentStatus = "paid"
          /\ EndsAfterFailedEmail(p, "ck_clearCart") =>
               /\ loc'[p].code = 201
               /\ UNCHANGED dorders
          /\ (/\ EndsAfterFailedEmail(p, "uos_save")
              /\ \A j \in DOMAIN orders :
                   j # loc[p].oid => orders[j].transactionId # loc[p].txn) =>
               /\ loc'[p].code = 200
               /\ orders'[loc[p].oid].paymentStatus = "paid"
               /\ EnrolledAfter(loc[p].u, loc[p].c)
          /\ (/\ EndsAfterFailedEmail(p, "amp_save")
              /\ \A j \in DOMAIN dorders :
                   j # loc[p].oid => dorders[j].transactionId # loc[p].txn) =>
               /\ loc'[p].code = 200
               /\ dorders'[loc[p].oid].paymentStatus = "paid"
               /\ Len(dorders'[loc[p].oid].downloadTokens)
                    = Len(dorders'[loc[p].oid].items)
          /\ (pc[p] \in {"up_count", "up_save"} /\ pc'[p] # pc[p]
              /\ Len(issuers') > Len(issuers)) =>
               Answers(p, 200)
     /\ \A t \in DOMAIN issuers :
          (issuers[t].at = "create" /\ issuers'[t].out = "failed") =>
            UNCHANGED <<enrollments, progress, certificates, pc, loc>>]_vars

\* the free course was ordered and its email failed: the call answered 201 and
\* the Enrollment is there; the student completed the only lesson, the
\* certificate task failed, and the Enrollment is at 100, completed, with the
\* updateProgress call answered 200
C16_Witness ==
  \E p, q \in Procs :
    /\ pc[p] = "done" /\ loc[p].op = "createOrder"
    /\ loc[p].mail = "failed" /\ loc[p].code = 201
    /\ pc[q] = "done" /\ loc[q].op = "updateProgress" /\ loc[q].code = 200
    /\ Len(issuers) = 1 /\ issuers[1].out = "failed"
    /\ certificates = <<>>
    /\ Len(orders) = 1 /\ orders[1].paymentStatus = "paid"
    /\ enrollments = <<[student |-> "u1", course |-> "c1",
                        progress |-> 100, completed |-> TRUE]>>

\* C17: a DigitalOrder holds DownloadTokens only while its paymentStatus is
\* paid, and the tokens it holds are one per line item, in order, each with
\* maxDownloads 5, downloads 0 and an expiry 7 days after a minting time that
\* is not in the future.
C17_TokensOnlyOnPaidOrders ==
  \A o \in DOMAIN dorders :
    dorders[o].downloadTokens # <<>> =>
      /\ dorders[o].paymentStatus = "paid"
      /\ Len(dorders[o].downloadTokens) = Len(dorders[o].items)
      /\ \A i \in DOMAIN dorders[o].downloadTokens :
           LET t == dorders[o].downloadTokens[i] IN
           /\ t.product = dorders[o].items[i].product
           /\ t.maxDownloads = 5
           /\ t.downloads = 0
           /\ t.expiresAt - 7 \in 0..now

\* the order a checkout step has just inserted
Inserted == dorders'[Len(dorders) + 1]

\* C18: a checkout of an empty cart answers 400 and inserts nothing; with a
\* non-empty cart of subtotal 0 it inserts a paid DigitalOrder, stores one token
\* per line item on it, empties the cart and answers 201; with a non-zero
\* subtotal it answers 400 when the payment fields are missing and otherwise
\* inserts a pending DigitalOrder without tokens, leaving the cart as it is.
C18_CheckoutOutcomes ==
  [][\A p \in Procs :
       /\ \A u \in Buyers, method \in BOOLEAN, txn \in TxnIds \cup {NoTxn} :
            CheckoutFromCart_Begin(p, u, method, txn) =>
              LET amount == computeSubtotal(cart[u].items) IN
              /\ UNCHANGED <<dorders, cart>>
              /\ cart[u].items = <<>> => Answers(p, 400)
              /\ (cart[u].items # <<>> /\ amount = 0) => pc'[p] = "ck_freeOrder"
              /\ (cart[u].items # <<>> /\ amount > 0) =>
                   IF method /\ txn # NoTxn THEN pc'[p] = "ck_order"
                                            ELSE Answers(p, 400)
       /\ (pc[p] = "ck_freeOrder" /\ pc'[p] # "ck_freeOrder") =>
            \/ Answers(p, 500) /\ UNCHANGED <<dorders, cart>>
            \/ /\ pc'[p] = "ck_saveTokens"
               /\ Len(dorders') = Len(dorders) + 1
               /\ Inserted.paymentStatus = "paid" /\ Inserted.amount = 0
               /\ Inserted.user = loc[p].u /\ Inserted.items = loc[p].items
       /\ (pc[p] = "ck_saveTokens" /\ pc'[p] # "ck_saveTokens") =>
            LET o == dorders'[loc[p].oid] IN
            /\ Len(o.downloadTokens) = Len(o.items)
            /\ \A i \in DOMAIN o.items :
                 o.downloadTokens[i].product = o.items[i].product
       /\ (pc[p] = "ck_clearCart" /\ pc'[p] # "ck_clearCart") =>
            /\ Answers(p, 201)
            /\ cart'[loc[p].u] = [items |-> <<>>, subtotal |-> 0]
            /\ UNCHANGED dorders
       /\ (pc[p] = "ck_order" /\ pc'[p] # "ck_order") =>
            \/ Answers(p, 500) /\ UNCHANGED <<dorders, cart>>
            \/ /\ Answers(p, 201)
               /\ Len(dorders') = Len(dorders) + 1
               /\ Inserted.paymentStatus = "pending"
               /\ Inserted.downloadTokens = <<>>
               /\ Inserted.amount > 0
               /\ UNCHANGED cart]_vars

\* the free cart was checked out: the call answered 201, the order is paid
\* and holds a token for its one item, and the cart is empty
C18_Witness ==
  \E p \in Procs :
    /\ pc[p] = "done" /\ loc[p].op = "checkoutFromCart" /\ loc[p].code = 201
    /\ Len(dorders) = 1
    /\ dorders[1].paymentStatus = "paid" /\ dorders[1].amount = 0
    /\ Len(dorders[1].downloadTokens) = 1
    /\ cart["u1"] = [items |-> <<>>, subtotal |-> 0]

\* C19: getDownloadLinks returns links only to the buyer of the order or an
\* administrator, and only while the order is paid; another requester is
\* answered 403, and so is any requester of an order that is pending or
\* failed, whether or not it was paid before; a 403 carries no link.
C19_LinksOnlyForPaidOwner ==
  [][\A p \in Procs : \A who \in Users, o \in DigitalOrderIds :
       (GetDownloadLinks(p, who, o) /\ o \in DOMAIN dorders) =>
         LET allowed == who = dorders[o].user \/ who = "admin"
             isPaid == dorders[o].paymentStatus = "paid"
         IN
         /\ (allowed /\ isPaid) =>
              /\ Answers(p, 200)
              /\ Len(loc'[p].links) = Len(dorders[o].items)
         /\ ~(allowed /\ isPaid) =>
              /\ Answers(p, 403)
              /\ loc'[p].links = <<>>]_vars

\* the free order was paid and holds its token, then was marked failed: its
\* buyer asks for the links and is answered 403 without a link
C19_Witness ==
  \E p \in Procs :
    /\ pc[p] = "done" /\ loc[p].op = "getDownloadLinks"
    /\ loc[p].oid = 1 /\ loc[p].u = "u1"
    /\ loc[p].code = 403 /\ loc[p].links = <<>>
    /\ dorders[1].amount = 0 /\ dorders[1].paymentStatus = "failed"
    /\ dorders[1].user = "u1"

\* C20: a link that getDownloadLinks returns for a token whose remaining
\* quota is 0 or whose expiresAt has passed carries no usable file url (stated
\* for requests that arrive while no purchase is being handled).
C20_SpentTokenGivesNoUrl ==
  [][\A p \in Procs : \A who \in Users, o \in DigitalOrderIds :
       (GetDownloadLinks(p, who, o) /\ Quiet(Purchases)) =>
         \A i \in DOMAIN loc'[p].links :
           LET k == loc'[p].links[i] IN
           (k.token # 0 /\ (k.remaining = 0 \/ k.expiresAt < now)) => k.url = ""]_vars

\* C21: recording a download against a token of a paid order that is not
\* expired and has quota left succeeds and raises the token's downloads by
\* exactly one, and downloads never exceeds maxDownloads.
C21_DownloadCounted ==
  [][\A p \in Procs : \A o \in DigitalOrderIds, i \in 1..Cardinality(Products) :
       (/\ RecordDownload(p, o, i)
        /\ o \in DOMAIN dorders
        /\ dorders[o].paymentStatus = "paid"
        /\ i \in DOMAIN dorders[o].downloadTokens
        /\ dorders[o].downloadTokens[i].downloads
             < dorders[o].downloadTokens[i].maxDownloads
        /\ dorders[o].downloadTokens[i].expiresAt >= now) =>
         /\ Answers(p, 200)
         /\ dorders'[o].downloadTokens[i].downloads
              = dorders[o].downloadTokens[i].downloads + 1
         /\ dorders'[o].downloadTokens[i].downloads
              <= dorders'[o].downloadTokens[i].maxDownloads]_vars

\* a Certificate of the task's pair is stored
CertificateStored(t) ==
  \E i \in DOMAIN certificates :
    /\ certificates[i].student = issuers[t].student
    /\ certificates[i].course = issuers[t].course

\* C22: an issuer task that finds a Certificate of its pair ends there, before
\* the rendering and the upload, and writes nothing; one that finds none goes
\* on to render and upload; a task whose rendering or upload fails stores no
\* Certificate; and a Certificate is stored only by a task past its upload,
\* one record for the task's own pair.
C22_IssueIdempotent ==
  [][/\ \A t \in DOMAIN issuers :
          /\ (issuers[t].at = "findExisting" /\ issuers'[t] # issuers[t]) =>
               /\ UNCHANGED <<certificates, enrollments, progress>>
               /\ IF CertificateStored(t)
                    THEN issuers'[t].at = "ended" /\ issuers'[t].out = "exists"
                    ELSE issuers'[t].at = "create"
          /\ (issuers[t].at = "create" /\ issuers'[t].out = "failed") =>
               UNCHANGED certificates
     /\ certificates' # certificates =>
          \E t \in DOMAIN issuers :
            /\ issuers[t].at = "create" /\ issuers'[t].out = "created"
            /\ ~CertificateStored(t)
            /\ certificates' = Append(certificates,
                 [student |-> issuers[t].student, course |-> issuers[t].course])]_vars

\* the first task stored the Certificate, a later task for the same pair
\* found it and ended without another record
C22_Witness ==
  \E s, t \in DOMAIN issuers :
    /\ issuers[s].out = "created"
    /\ issuers[t].out = "exists"
    /\ issuers[s].student = issuers[t].student
    /\ issuers[s].course = issuers[t].course
    /\ Len(certificates) = 1

\* a certificate task of the pair failed
IssueFailed(s, c) ==
  \E t \in DOMAIN issuers :
    /\ issuers[t].student = s /\ issuers[t].course = c
    /\ issuers[t].out = "failed"

\* the Enrollment of the pair is at 100 and completed
Completed(s, c) ==
  \E i \in DOMAIN enrollments :
    /\ enrollments[i].student = s /\ enrollments[i].course = c
    /\ enrollments[i].progress = 100 /\ enrollments[i].completed

C24_TerminalStatusImmutable ==
  [][\A i \in DOMAIN orders :
       orders[i].paymentStatus \in {"paid", "failed"} =>
         orders'[i].paymentStatus = orders[i].paymentStatus]_vars

\* C25: a student enrolled in a priced course has an Order for that course
\* that is paid, or a handler that is granting such an order is about to save
\* it as paid.
C25_EnrollmentNeedsPaidOrder ==
  \A i \in DOMAIN enrollments :
    price[enrollments[i].course] > 0 =>
      \/ \E j \in DOMAIN orders :
           /\ orders[j].user = enrollments[i].student
           /\ orders[j].course = enrollments[i].course
           /\ orders[j].paymentStatus = "paid"
      \/ \E p \in Procs :
           /\ pc[p] \in {"uos_email", "uos_save", "uo_email", "uo_save"}
           /\ loc[p].u = enrollments[i].student
           /\ loc[p].c = enrollments[i].course
           /\ loc[p].req = "paid"

\* C26: the progress and completed fields of a stored Enrollment change only
\* in a step of the Progress Tracker: updateProgress, or a recalculation.
C26_OnlyTrackerWritesProgress ==
  [][\A i \in DOMAIN enrollments :
       (\/ enrollments'[i].progress # enrollments[i].progress
        \/ enrollments'[i].completed # enrollments[i].completed) =>
         \E p \in Procs :
           /\ pc'[p] # pc[p]
           /\ loc[p].op \in {"updateProgress"} \cup RecalcOps]_vars

\* C27: when updateOrderStatus or updateOrder creates the Enrollment of an
\* order, or dispatches its confirmation email, the order is already stored
\* as paid.
C27_PaidSavedBeforeGrant ==
  [][\A p \in Procs :
       /\ (pc[p] \in {"uos_enroll", "uo_enroll"}
           /\ Len(enrollments') > Len(enrollments)) =>
            orders[loc[p].oid].paymentStatus = "paid"
       /\ (pc[p] \in {"uos_email", "uo_email"} /\ pc'[p] # pc[p]) =>
            orders[loc[p].oid].paymentStatus = "paid"]_vars

\* the handler of p is suspended on the await of the confirmation email: the
\* send is in progress and the handler goes on only when it has ended
AwaitsEmail(p) ==
  pc[p] \in {"co_email", "uos_email", "uo_email", "ck_email", "amp_email"}

\* C28: a request that triggers a confirmation email does not block on it: no
\* handler is ever suspended until the email send has ended, so its response
\* need not follow the end of the send.
C28_NeverWaitsForEmail == \A p \in Procs : ~AwaitsEmail(p)

\* the tokens of an order that belong to a product
TokensOf(order, product) ==
  {i \in DOMAIN order.downloadTokens : order.downloadTokens[i].product = product}

\* C29: getDownloadLinks changes no stored record, and for every line item it
\* reports remaining = max(0, maxDownloads - downloads) of the item's token, 0
\* when the item has no token: a value within 0..maxDownloads.
C29_LinksAreReadOnly ==
  [][\A p \in Procs : \A who \in Users, o \in DigitalOrderIds :
       GetDownloadLinks(p, who, o) =>
         /\ UNCHANGED <<dorders, cart, orders, enrollments, tokenSeq, now>>
         /\ \A i \in DOMAIN loc'[p].links :
              LET k == loc'[p].links[i]
                  owned == TokensOf(dorders[o], dorders[o].items[i].product)
              IN
              /\ k.remaining \in 0..DefaultMaxDownloads
              /\ owned = {} => k.remaining = 0
              /\ owned # {} =>
                   \E j \in owned :
                     LET t == dorders[o].downloadTokens[j] IN
                     k.remaining = IF t.maxDownloads >= t.downloads
                                     THEN t.maxDownloads - t.downloads ELSE 0]_vars

\* two requests for the links of the paid order were answered alike, with the
\* full quota remaining, and the stored token still counts no download
C29_Witness ==
  \E p, q \in Procs :
    /\ p # q
    /\ pc[p] = "done" /\ loc[p].op = "getDownloadLinks" /\ loc[p].code = 200
    /\ pc[q] = "done" /\ loc[q].op = "getDownloadLinks" /\ loc[q].code = 200
    /\ loc[p].oid = 1 /\ loc[q].oid = 1
    /\ loc[p].links = loc[q].links
    /\ Len(loc[p].links) = 1
    /\ loc[p].links[1].remaining = DefaultMaxDownloads
    /\ dorders[1].downloadTokens[1].downloads = 0

\* C30: whenever no request is being handled, the completedLessons of every
\* Progress record hold only lessons that belong to the course now.
C30_CompletedLessonsAreCurrent ==
  (\A p \in Procs : Free(p)) =>
    \A k \in DOMAIN progress : progress[k].completedLessons \subseteq lessons
====
